---------------------------- MODULE Spec2Model ----------------------------
(***************************************************************************)
(* Model of the isbn crate (src/src/lib.rs, src/src/range.rs,              *)
(* src/build.rs): the Isbn10 / Isbn13 numerals, their check digits,        *)
(* conversions, rendering, parsing and hyphenation.                        *)
(*                                                                         *)
(* Sequences are 1-based: digit index i of the Rust arrays is position     *)
(* i + 1 here.  Characters are one-character strings, a str is a sequence  *)
(* of characters.                                                          *)
(***************************************************************************)
EXTENDS Integers, Sequences, FiniteSets, TLC

VARIABLES
    table,    \* the range table the build embedded (build.rs reads it once)
    arr,      \* the caller's digit array, for Isbn10::new / Isbn13::new (<<>> if none)
    editable, \* whether the separator edits are applied to the strings of this run
    str,      \* the string held: the caller's, or the output of Display / hyphenate
    strSrc,   \* the numeral str was rendered from (NoIsbn for an input string)
    strKind,  \* "none", "raw", "display" or "hyphenate"
    edits,    \* number of separator edits applied to str since it was produced
    cur,      \* result of the last operation that returns a numeral or an error
    prev,     \* the numeral the last conversion was applied to
    orig,     \* the numeral the conversion before that was applied to
    chkIn,    \* the array last passed to a calculate_check_digit (<<>> if none)
    chk,      \* what that call returned (-1 if none)
    hyph,     \* result of the last hyphenate (NoStr if none)
    op,       \* name of the last operation
    range,    \* the IsbnRange the program loaded at run time (NoRange if none)
    look,     \* the rule lookups the last classification made, in order
    grp,      \* result of the last registration_group (NoName if none)
    calls,    \* the invocations that share range: what each has read so far
    built     \* how the build of the static provider ended ("none" before it)

vars ==
    <<table, arr, editable, str, strSrc, strKind, edits, cur, prev, orig, chkIn,
      chk, hyph, op, range, look, grp, calls, built>>

-----------------------------------------------------------------------------
(* Bounds of the model *)

\* number of sample numerals the inputs are built from
NSamples == 3

\* largest value a digit of an input array takes (u8 values above 10 behave alike)
MaxDigitIn == 11

\* largest number of separator edits applied to one string
MaxEdits == 1

\* number of invocations that run against one shared range table
NCallers == 2

-----------------------------------------------------------------------------
(* Results: IsbnResult<Isbn10>, IsbnResult<Isbn13>, Result<Isbn, IsbnError> *)

Ok10(d) == [tag |-> "Isbn10", digits |-> d, err |-> ""]

Ok13(d) == [tag |-> "Isbn13", digits |-> d, err |-> ""]

Err(e) == [tag |-> "Err", digits |-> <<>>, err |-> e]

NoIsbn == [tag |-> "None", digits |-> <<>>, err |-> ""]

IsbnError ==
    {"InvalidLength", "InvalidDigit", "InvalidGroup", "UndefinedRange",
     "InvalidChecksum", "InvalidConversion", "DigitTooLarge"}

-----------------------------------------------------------------------------
(* Check digits *)

RECURSIVE WeightedSum10(_, _)
\* digits[..9].iter().enumerate().map(|(i, &d)| d * (10 - i)).sum(), from index i on
WeightedSum10(digits, i) ==
    IF i > 8 THEN 0
    ELSE digits[i + 1] * (10 - i) + WeightedSum10(digits, i + 1)

\* faulty variant: 11 - sum_m without the test for sum_m == 0
Isbn10_check_NoZeroCase(digits) ==
    11 - (WeightedSum10(digits, 0) % 11)

\* Isbn10::calculate_check_digit; the sum is a usize, the result a u8
Isbn10_calculate_check_digit(digits) ==
    LET sum   == WeightedSum10(digits, 0)
        sum_m == (sum % 11) % 256
    IN  IF sum_m = 0 THEN 0 ELSE 11 - sum_m

RECURSIVE PairSum13(_, _)
\* for i in 0..6 { sum += u16::from(digits[i*2] + 3 * digits[i*2+1]) }; the
\* inner addition is done in u8
PairSum13(digits, i) ==
    IF i > 5 THEN 0
    ELSE ((digits[2 * i + 1] + 3 * digits[2 * i + 2]) % 256) + PairSum13(digits, i + 1)

\* faulty variant: 10 - sum_m without the test for sum_m == 0
Isbn13_check_NoZeroCase(digits) ==
    10 - ((PairSum13(digits, 0) % 65536) % 10)

\* Isbn13::calculate_check_digit
Isbn13_calculate_check_digit(digits) ==
    LET sum   == PairSum13(digits, 0) % 65536
        sum_m == (sum % 10) % 256
    IN  IF sum_m = 0 THEN 0 ELSE 10 - sum_m

-----------------------------------------------------------------------------
(* Constructors and conversions *)

\* Isbn10::new
Isbn10_new(digits) ==
    IF (\E i \in 1..9 : digits[i] > 9) \/ digits[10] > 10
    THEN Err("DigitTooLarge")
    ELSE IF Isbn10_calculate_check_digit(digits) = digits[10]
         THEN Ok10(digits)
         ELSE Err("InvalidChecksum")

\* faulty variant: the checksum is tested before the digit bounds
Isbn13_new_ChecksumFirst(digits) ==
    IF Isbn13_calculate_check_digit(digits) # digits[13]
    THEN Err("InvalidChecksum")
    ELSE IF \E i \in 1..13 : digits[i] > 9
         THEN Err("DigitTooLarge")
         ELSE Ok13(digits)

\* Isbn13::new
Isbn13_new(digits) ==
    IF \E i \in 1..13 : digits[i] > 9
    THEN Err("DigitTooLarge")
    ELSE IF Isbn13_calculate_check_digit(digits) = digits[13]
         THEN Ok13(digits)
         ELSE Err("InvalidChecksum")

\* the array a of Isbn10::try_from before its check digit is written
TryFromBody(isbn13) == SubSeq(isbn13.digits, 4, 12) \o <<0>>

\* faulty variant: the ISBN-13 check digit is kept instead of recomputed
Isbn10_try_from_KeepCheck(isbn13) ==
    IF SubSeq(isbn13.digits, 1, 3) = <<9, 7, 8>>
    THEN Ok10(SubSeq(isbn13.digits, 4, 13))
    ELSE Err("InvalidConversion")

\* faulty variant: the 978 prefix is not tested
Isbn10_try_from_AnyPrefix(isbn13) ==
    LET a == TryFromBody(isbn13)
    IN  Ok10([a EXCEPT ![10] = Isbn10_calculate_check_digit(a)])

\* Isbn10::try_from(isbn13: Isbn13)
Isbn10_try_from(isbn13) ==
    IF SubSeq(isbn13.digits, 1, 3) = <<9, 7, 8>>
    THEN LET a == TryFromBody(isbn13)
         IN  Ok10([a EXCEPT ![10] = Isbn10_calculate_check_digit(a)])
    ELSE Err("InvalidConversion")

\* the array digits of From<Isbn10> for Isbn13 before its check digit is written
FromBody(isbn10) == <<9, 7, 8>> \o SubSeq(isbn10.digits, 1, 9) \o <<0>>

\* faulty variant: the ISBN-10 check digit is copied instead of recomputed
Isbn13_from_CopyCheck(isbn10) ==
    Ok13(<<9, 7, 8>> \o isbn10.digits)

\* impl From<Isbn10> for Isbn13
Isbn13_from(isbn10) ==
    LET digits == FromBody(isbn10)
    IN  Ok13([digits EXCEPT ![13] = Isbn13_calculate_check_digit(digits)])

-----------------------------------------------------------------------------
(* Characters and rendering *)

DigitChars == <<"0", "1", "2", "3", "4", "5", "6", "7", "8", "9">>

DigitCharSet == {DigitChars[i] : i \in 1..10}

\* char::to_digit(10) of a character in '0'..='9'
to_digit(c) == CHOOSE d \in 0..9 : DigitChars[d + 1] = c

\* convert_isbn_body: char::from_digit(d, 10).unwrap(); no value for d > 9 (a panic)
convert_isbn_body(d) == DigitChars[d + 1]

\* convert_isbn10_check
convert_isbn10_check(d) ==
    IF d < 11 THEN (DigitChars \o <<"X">>)[d + 1] ELSE "X"

\* faulty variant: the check digit 10 is rendered as a digit, not as X
Isbn10_fmt_DigitCheck(isbn10) ==
    [i \in 1..10 |-> convert_isbn_body(isbn10.digits[i] % 10)]

\* impl fmt::Display for Isbn10
Isbn10_fmt(isbn10) ==
    [i \in 1..9 |-> convert_isbn_body(isbn10.digits[i])]
        \o <<convert_isbn10_check(isbn10.digits[10])>>

\* impl fmt::Display for Isbn13
Isbn13_fmt(isbn13) ==
    [i \in 1..13 |-> convert_isbn_body(isbn13.digits[i])]

\* impl fmt::Display for Isbn
Isbn_fmt(isbn) ==
    IF isbn.tag = "Isbn10" THEN Isbn10_fmt(isbn) ELSE Isbn13_fmt(isbn)

-----------------------------------------------------------------------------
(* Parser *)

ParserOk(digits) == [tag |-> "Parser", digits |-> digits, err |-> ""]

RECURSIVE ParserLoop_XAnywhere(_, _, _, _)
\* faulty variant: X is pushed as 10 at any position and digits may follow it
ParserLoop_XAnywhere(s, i, digits, has_x) ==
    IF i > Len(s) THEN ParserOk(digits)
    ELSE LET c == s[i]
         IN  CASE c \in {"-", " "} -> ParserLoop_XAnywhere(s, i + 1, digits, has_x)
               [] c = "X" ->
                    IF Len(digits) < 13
                    THEN ParserLoop_XAnywhere(s, i + 1, Append(digits, 10), has_x)
                    ELSE Err("InvalidLength")
               [] c \in DigitCharSet ->
                    IF Len(digits) = 13 THEN Err("InvalidLength")
                    ELSE ParserLoop_XAnywhere(s, i + 1, Append(digits, to_digit(c)), has_x)
               [] OTHER -> Err("InvalidDigit")

RECURSIVE ParserLoop_HyphenIsError(_, _, _, _)
\* faulty variant: only spaces are skipped, a hyphen is an invalid digit
ParserLoop_HyphenIsError(s, i, digits, has_x) ==
    IF i > Len(s) THEN ParserOk(digits)
    ELSE LET c == s[i]
         IN  CASE c = " " -> ParserLoop_HyphenIsError(s, i + 1, digits, has_x)
               [] c = "X" ->
                    IF Len(digits) = 9
                    THEN ParserLoop_HyphenIsError(s, i + 1, Append(digits, 10), TRUE)
                    ELSE Err("InvalidDigit")
               [] c \in DigitCharSet ->
                    IF has_x THEN Err("InvalidDigit")
                    ELSE IF Len(digits) = 13 THEN Err("InvalidLength")
                    ELSE ParserLoop_HyphenIsError(s, i + 1, Append(digits, to_digit(c)), has_x)
               [] OTHER -> Err("InvalidDigit")

RECURSIVE ParserLoop_SkipsUnknown(_, _, _, _)
\* faulty variant: a character that is no digit, separator or X is skipped
ParserLoop_SkipsUnknown(s, i, digits, has_x) ==
    IF i > Len(s) THEN ParserOk(digits)
    ELSE LET c == s[i]
         IN  CASE c \in {"-", " "} -> ParserLoop_SkipsUnknown(s, i + 1, digits, has_x)
               [] c = "X" ->
                    IF Len(digits) = 9
                    THEN ParserLoop_SkipsUnknown(s, i + 1, Append(digits, 10), TRUE)
                    ELSE Err("InvalidDigit")
               [] c \in DigitCharSet ->
                    IF has_x THEN Err("InvalidDigit")
                    ELSE IF Len(digits) = 13 THEN Err("InvalidLength")
                    ELSE ParserLoop_SkipsUnknown(s, i + 1, Append(digits, to_digit(c)), has_x)
               [] OTHER -> ParserLoop_SkipsUnknown(s, i + 1, digits, has_x)

RECURSIVE ParserLoop_DropsOverflow(_, _, _, _)
\* faulty variant: a digit that does not fit into the buffer is dropped
ParserLoop_DropsOverflow(s, i, digits, has_x) ==
    IF i > Len(s) THEN ParserOk(digits)
    ELSE LET c == s[i]
         IN  CASE c \in {"-", " "} -> ParserLoop_DropsOverflow(s, i + 1, digits, has_x)
               [] c = "X" ->
                    IF Len(digits) = 9
                    THEN ParserLoop_DropsOverflow(s, i + 1, Append(digits, 10), TRUE)
                    ELSE Err("InvalidDigit")
               [] c \in DigitCharSet ->
                    IF has_x THEN Err("InvalidDigit")
                    ELSE IF Len(digits) = 13 THEN ParserLoop_DropsOverflow(s, i + 1, digits, has_x)
                    ELSE ParserLoop_DropsOverflow(s, i + 1, Append(digits, to_digit(c)), has_x)
               [] OTHER -> Err("InvalidDigit")

RECURSIVE ParserLoop(_, _, _, _)
\* the loop of Parser::new from character i of s on; digits is an
\* ArrayVec<u8, 13>, whose try_push fails (InvalidLength) when it holds 13
ParserLoop(s, i, digits, has_x) ==
    IF i > Len(s) THEN ParserOk(digits)
    ELSE LET c == s[i]
         IN  CASE c \in {"-", " "} -> ParserLoop(s, i + 1, digits, has_x)
               [] c = "X" ->
                    IF Len(digits) = 9
                    THEN ParserLoop(s, i + 1, Append(digits, 10), TRUE)
                    ELSE Err("InvalidDigit")
               [] c \in DigitCharSet ->
                    IF has_x THEN Err("InvalidDigit")
                    ELSE IF Len(digits) = 13 THEN Err("InvalidLength")
                    ELSE ParserLoop(s, i + 1, Append(digits, to_digit(c)), has_x)
               [] OTHER -> Err("InvalidDigit")

\* Parser::new
Parser_new(s) == ParserLoop(s, 1, <<>>, FALSE)

\* Parser::read_isbn13
Parser_read_isbn13(p) ==
    LET digits      == p.digits
        check_digit == Isbn13_calculate_check_digit(digits)
    IN  IF check_digit = digits[13] THEN Ok13(digits) ELSE Err("InvalidDigit")

\* faulty variant: the check digit is not compared
Parser_read_isbn10_NoCheck(p) == Ok10(p.digits)

\* Parser::read_isbn10
Parser_read_isbn10(p) ==
    LET digits      == p.digits
        check_digit == Isbn10_calculate_check_digit(digits)
    IN  IF check_digit = digits[10] THEN Ok10(digits) ELSE Err("InvalidDigit")

\* Parser::read_isbn
Parser_read_isbn(p) ==
    CASE Len(p.digits) = 10 -> Parser_read_isbn10(p)
      [] Len(p.digits) = 13 -> Parser_read_isbn13(p)
      [] OTHER -> Err("InvalidLength")

\* impl FromStr for Isbn
Isbn_from_str(s) ==
    LET p == Parser_new(s)
    IN  IF p.tag = "Err" THEN p ELSE Parser_read_isbn(p)

\* impl FromStr for Isbn10
Isbn10_from_str(s) ==
    LET p == Parser_new(s)
    IN  IF p.tag = "Err" THEN p
        ELSE IF Len(p.digits) = 10 THEN Parser_read_isbn10(p)
        ELSE Err("InvalidLength")

\* impl FromStr for Isbn13
Isbn13_from_str(s) ==
    LET p == Parser_new(s)
    IN  IF p.tag = "Err" THEN p
        ELSE IF Len(p.digits) = 13 THEN Parser_read_isbn13(p)
        ELSE Err("InvalidLength")

-----------------------------------------------------------------------------
(* The range table as build.rs parses it from RangeMessage.xml: a list of    *)
(* EAN.UCC groups and a list of registration groups, each a Group with its   *)
(* Rules.  The file itself is input data; the model draws it from Tables.    *)

Rule(min, max, length) == [min |-> min, max |-> max, length |-> length]

Group(agency, prefix, registration_group_element, rules) ==
    [agency |-> agency, prefix |-> prefix,
     registration_group_element |-> registration_group_element, rules |-> rules]

\* an excerpt of the published range message
PublishedTable ==
    [ean_ucc_groups |-> <<
        Group("International ISBN Agency", <<9, 7, 8>>, <<>>, <<
            Rule(0, 5999999, 1), Rule(6000000, 6499999, 3),
            Rule(6500000, 6599999, 2), Rule(6600000, 6999999, 3),
            Rule(7000000, 7999999, 1), Rule(8000000, 9499999, 2),
            Rule(9500000, 9899999, 3), Rule(9900000, 9989999, 4),
            Rule(9990000, 9999999, 5) >>),
        Group("International ISBN Agency", <<9, 7, 9>>, <<>>, <<
            Rule(0, 999999, 0), Rule(1000000, 1599999, 2),
            Rule(1600000, 7999999, 0), Rule(8000000, 8999999, 1),
            Rule(9000000, 9999999, 0) >>) >>,
     registration_groups |-> <<
        Group("English language", <<9, 7, 8>>, <<0>>, <<
            Rule(0, 1999999, 2), Rule(2000000, 6999999, 3),
            Rule(7000000, 8499999, 4), Rule(8500000, 8999999, 5),
            Rule(9000000, 9499999, 6), Rule(9500000, 9999999, 7) >>),
        Group("English language", <<9, 7, 8>>, <<1>>, <<
            Rule(0, 99999, 3), Rule(100000, 299999, 2),
            Rule(300000, 999999, 0), Rule(1000000, 3979999, 3),
            Rule(3980000, 5499999, 4), Rule(5500000, 8697999, 5),
            Rule(8698000, 9989999, 6), Rule(9990000, 9999999, 7) >>),
        Group("German language", <<9, 7, 8>>, <<3>>, <<
            Rule(0, 299999, 2), Rule(300000, 399999, 3),
            Rule(400000, 1999999, 2), Rule(2000000, 6999999, 3),
            Rule(7000000, 8499999, 4), Rule(8500000, 8999999, 5),
            Rule(9000000, 9499999, 6), Rule(9500000, 9999999, 7) >>),
        Group("Korea, Republic", <<9, 7, 8>>, <<8, 9>>, <<
            Rule(0, 2499999, 2), Rule(2500000, 5499999, 3),
            Rule(5500000, 8499999, 4), Rule(8500000, 9499999, 5),
            Rule(9500000, 9699999, 6), Rule(9700000, 9899999, 5),
            Rule(9900000, 9999999, 3) >>),
        Group("France", <<9, 7, 9>>, <<1, 0>>, <<
            Rule(0, 1999999, 2), Rule(2000000, 6999999, 3),
            Rule(7000000, 8999999, 4), Rule(9000000, 9759999, 5),
            Rule(9760000, 9999999, 6) >>),
        Group("United States", <<9, 7, 9>>, <<8>>, <<
            Rule(0, 1999999, 0), Rule(2000000, 2299999, 3),
            Rule(2300000, 9849999, 4), Rule(9850000, 9999999, 7) >>) >> ]

\* a table with long elements: two-digit groups everywhere, registrants of
\* six and seven digits
LongElementTable ==
    [ean_ucc_groups |-> <<
        Group("International ISBN Agency", <<9, 7, 8>>, <<>>, <<
            Rule(0, 9999999, 2) >>),
        Group("International ISBN Agency", <<9, 7, 9>>, <<>>, <<
            Rule(0, 9999999, 2) >>) >>,
     registration_groups |-> <<
        Group("Korea, Republic", <<9, 7, 8>>, <<8, 9>>, <<
            Rule(0, 4999999, 6), Rule(5000000, 9999999, 7) >>),
        Group("English language", <<9, 7, 8>>, <<1, 4>>, <<
            Rule(0, 8999999, 7), Rule(9000000, 9999999, 0) >>),
        Group("France", <<9, 7, 9>>, <<1, 0>>, <<
            Rule(0, 9999999, 6) >>) >> ]

Tables == {PublishedTable, LongElementTable}

\* a table whose rules meet the segment values of the sample numerals at
\* their ends: 1492067 and 6626126 as a rule's last value, 9752298 as a
\* rule's first value; the rules of 978-2 overlap, and 979 is absent
BoundaryTable ==
    [ean_ucc_groups |-> <<
        Group("International ISBN Agency", <<9, 7, 8>>, <<>>, <<
            Rule(0, 1492067, 1), Rule(1492068, 7999999, 1),
            Rule(8000000, 9999999, 2) >>) >>,
     registration_groups |-> <<
        Group("English language", <<9, 7, 8>>, <<0>>, <<
            Rule(0, 9752297, 3), Rule(9752298, 9999999, 0) >>),
        Group("English language", <<9, 7, 8>>, <<1>>, <<
            Rule(0, 9999999, 4) >>),
        Group("French language", <<9, 7, 8>>, <<2>>, <<
            Rule(0, 4999999, 4), Rule(4000000, 9999999, 3) >>),
        Group("Korea, Republic", <<9, 7, 8>>, <<8, 9>>, <<
            Rule(0, 6626126, 4), Rule(6626127, 9999999, 5) >>) >> ]

\* a table with a two-digit group for the numerals that begin with 0, where
\* the only group with a leading 0 is 978-0, and with groups and registrants
\* of seven digits for the others
LeadingZeroTable ==
    [ean_ucc_groups |-> <<
        Group("International ISBN Agency", <<9, 7, 8>>, <<>>, <<
            Rule(0, 999999, 2), Rule(1000000, 9999999, 7) >>) >>,
     registration_groups |-> <<
        Group("English language", <<9, 7, 8>>, <<0>>, <<
            Rule(0, 9999999, 3) >>),
        Group("Seven digit group", <<9, 7, 8>>, <<6, 0, 9, 9, 9, 9, 9>>, <<
            Rule(0, 9999999, 7) >>) >> ]

\* LongElementTable with a registrant length of 8 in group 978-89
TooLargeTable ==
    [LongElementTable EXCEPT !.registration_groups[1].rules[2].length = 8]

\* LongElementTable with a registrant length of 10, which takes two
\* characters to write
TwoDigitLengthTable ==
    [LongElementTable EXCEPT !.registration_groups[1].rules[2].length = 10]

\* the source tables a provider is built from
LoadTables == {LongElementTable, TooLargeTable, TwoDigitLengthTable}

\* the tables the classification is checked with
RangeTables == Tables \cup {BoundaryTable, LeadingZeroTable}

-----------------------------------------------------------------------------
(* The lookup functions build.rs generates (generated.rs) *)

GroupOk(name, segment_length) ==
    [tag |-> "Group", name |-> name, segment_length |-> segment_length, err |-> ""]

GroupErr(e) == [tag |-> "Err", name |-> "", segment_length |-> 0, err |-> e]

\* ((prefix[0] as u16) << 8) | ((prefix[1] as u16) << 4) | (prefix[2] as u16);
\* each digit is below 16, so the ORs add
PackPrefix(prefix) == (prefix[1] * 256 + prefix[2] * 16 + prefix[3]) % 65536

RECURSIVE PackDigits(_, _)
\* for &digit in digits { acc = (acc << 4) | digit as u32 }; at most seven
\* digits are packed, so acc stays below 2^28 and the u32 never wraps
PackDigits(digits, acc) ==
    IF digits = <<>> THEN acc
    ELSE PackDigits(Tail(digits), acc * 16 + Head(digits))

\* parse_rules: assert!(length < 8, "Segment length can be at most 7.")
parse_rules(rules) ==
    IF \E i \in 1..Len(rules) : ~(rules[i].length < 8) THEN "panic" ELSE "parsed"

\* main of build.rs: the groups of both levels are parsed and the lookup
\* functions are generated from them; a panic ends the build
build_main(t) ==
    IF \/ \E i \in 1..Len(t.ean_ucc_groups) :
              parse_rules(t.ean_ucc_groups[i].rules) = "panic"
       \/ \E i \in 1..Len(t.registration_groups) :
              parse_rules(t.registration_groups[i].rules) = "panic"
    THEN "panic"
    ELSE "generated"

RECURSIVE MatchSegment(_, _, _)
\* the generated "let length = match segment { min ..= max => ..., _ => ... }"
\* of one group: the arms are tried in order and the ranges are inclusive
MatchSegment(rules, i, segment) ==
    IF i > Len(rules) THEN GroupErr("InvalidGroup")
    ELSE IF rules[i].min <= segment /\ segment <= rules[i].max
         THEN IF rules[i].length = 0
              THEN GroupErr("UndefinedRange")
              ELSE GroupOk("", rules[i].length)
         ELSE MatchSegment(rules, i + 1, segment)

RECURSIVE MatchGroup(_, _, _, _, _)
\* the generated "match prefix" / "match (prefix, registration_group_element)":
\* the first arm whose key equals the scrutinee decides
MatchGroup(groups, i, prefix, element, segment) ==
    IF i > Len(groups) THEN GroupErr("InvalidGroup")
    ELSE IF PackPrefix(groups[i].prefix) = prefix
            /\ PackDigits(groups[i].registration_group_element, 0) = element
         THEN LET length == MatchSegment(groups[i].rules, 1, segment)
              IN  IF length.tag = "Err" THEN length
                  ELSE GroupOk(groups[i].agency, length.segment_length)
         ELSE MatchGroup(groups, i + 1, prefix, element, segment)

\* Isbn::get_ean_ucc_group (every EAN.UCC group has an empty element)
Isbn_get_ean_ucc_group(t, prefix, segment) ==
    MatchGroup(t.ean_ucc_groups, 1, prefix, 0, segment)

\* Isbn::get_registration_group
Isbn_get_registration_group(t, prefix, registration_group_element, segment) ==
    MatchGroup(t.registration_groups, 1, prefix, registration_group_element, segment)

-----------------------------------------------------------------------------
(* trait IsbnObject, for Isbn10 and Isbn13 *)

RECURSIVE Pow10(_)
Pow10(n) == IF n = 0 THEN 1 ELSE 10 * Pow10(n - 1)

\* self.digits.get(i).unwrap_or(&0), i counted from 0
DigitOrZero(digits, i) == IF i < Len(digits) THEN digits[i + 1] ELSE 0

RECURSIVE Isbn10_segment_from(_, _, _)
Isbn10_segment_from(digits, base, i) ==
    IF i > 6 THEN 0
    ELSE DigitOrZero(digits, base + i) * Pow10(6 - i)
         + Isbn10_segment_from(digits, base, i + 1)

RECURSIVE Isbn13_segment_from(_, _, _)
Isbn13_segment_from(digits, base, i) ==
    IF i > 8 THEN 0
    ELSE DigitOrZero(digits, base + i) * Pow10(9 - i)
         + Isbn13_segment_from(digits, base, i + 1)

\* Isbn10::segment: (0..7).fold; Isbn13::segment: (3..9).fold; the u32 sum
\* is at most 10 * 1111111 and never wraps
segment(isbn, base) ==
    IF isbn.tag = "Isbn10"
    THEN Isbn10_segment_from(isbn.digits, base, 0)
    ELSE Isbn13_segment_from(isbn.digits, base, 3)

\* Isbn10::prefix_element is 0x978; Isbn13::prefix_element packs its digits
prefix_element(isbn) ==
    IF isbn.tag = "Isbn10" THEN 9 * 256 + 7 * 16 + 8
    ELSE PackPrefix(SubSeq(isbn.digits, 1, 3))

\* Isbn10::group_prefix packs digits[..length], Isbn13::group_prefix
\* digits[3..length + 3]
group_prefix(isbn, length) ==
    IF isbn.tag = "Isbn10"
    THEN PackDigits(SubSeq(isbn.digits, 1, length), 0)
    ELSE PackDigits(SubSeq(isbn.digits, 4, length + 3), 0)

RECURSIVE HyphenateBody_ClosingHyphen(_, _, _)
\* faulty variant: the loop closes the body with a hyphen of its own, before
\* the one hyphenate_with pushes in front of the check digit
HyphenateBody_ClosingHyphen(body, hyphen_at, i) ==
    IF i >= Len(body) THEN <<"-">>
    ELSE (IF i \in {hyphen_at[1], hyphen_at[2]} THEN <<"-">> ELSE <<>>)
         \o <<convert_isbn_body(body[i + 1])>>
         \o HyphenateBody_ClosingHyphen(body, hyphen_at, i + 1)

RECURSIVE HyphenateBody(_, _, _)
\* for (i, &digit) in body.iter().enumerate() { if hyphen_at.contains(&i)
\* { push('-') } push(convert_isbn_body(digit)) }, from index i on
HyphenateBody(body, hyphen_at, i) ==
    IF i >= Len(body) THEN <<>>
    ELSE (IF i \in {hyphen_at[1], hyphen_at[2]} THEN <<"-">> ELSE <<>>)
         \o <<convert_isbn_body(body[i + 1])>>
         \o HyphenateBody(body, hyphen_at, i + 1)

\* the capacity of the ArrayString<17> hyphenate_with pushes into
ArrayStringCapacity == 17

\* Isbn10::hyphenate_with and Isbn13::hyphenate_with
hyphenate_with(isbn, hyphen_at) ==
    IF isbn.tag = "Isbn10"
    THEN HyphenateBody(SubSeq(isbn.digits, 1, 9), hyphen_at, 0)
         \o <<"-", convert_isbn10_check(isbn.digits[10])>>
    ELSE [i \in 1..3 |-> convert_isbn_body(isbn.digits[i])] \o <<"-">>
         \o HyphenateBody(SubSeq(isbn.digits, 4, 12), hyphen_at, 0)
         \o <<"-", convert_isbn_body(isbn.digits[13])>>

StrOk(s) == [tag |-> "Str", s |-> s, err |-> ""]

StrErr(e) == [tag |-> "Err", s |-> <<>>, err |-> e]

\* IsbnObject::ean_ucc_group
ean_ucc_group(t, isbn) ==
    Isbn_get_ean_ucc_group(t, prefix_element(isbn), segment(isbn, 0))

\* IsbnObject::trait_hyphenate (Isbn10::hyphenate, Isbn13::hyphenate, Isbn::hyphenate)
trait_hyphenate(t, isbn) ==
    LET g == ean_ucc_group(t, isbn)
    IN  IF g.tag = "Err" THEN StrErr(g.err)
        ELSE LET registration_group_segment_length == g.segment_length
                 r == Isbn_get_registration_group(
                          t, prefix_element(isbn),
                          group_prefix(isbn, registration_group_segment_length),
                          segment(isbn, registration_group_segment_length))
             IN  IF r.tag = "Err" THEN StrErr(r.err)
                 ELSE StrOk(hyphenate_with(isbn,
                          <<registration_group_segment_length,
                            registration_group_segment_length + r.segment_length>>))

\* the rule lookups trait_hyphenate and trait_registration_group make, in
\* order: "?" returns after the first one that fails
Lookup(level, key, v, result) ==
    [level |-> level, key |-> key, v |-> v, result |-> result]

trait_lookups(t, isbn) ==
    LET g == ean_ucc_group(t, isbn)
        first == Lookup("ean_ucc_group", <<prefix_element(isbn)>>,
                        segment(isbn, 0), g)
    IN  IF g.tag = "Err" THEN <<first>>
        ELSE <<first,
               Lookup("registration_group",
                      <<prefix_element(isbn), group_prefix(isbn, g.segment_length)>>,
                      segment(isbn, g.segment_length),
                      Isbn_get_registration_group(
                          t, prefix_element(isbn),
                          group_prefix(isbn, g.segment_length),
                          segment(isbn, g.segment_length)))>>

NameOk(name) == [tag |-> "Name", name |-> name, err |-> ""]

NameErr(e) == [tag |-> "Err", name |-> "", err |-> e]

NoName == [tag |-> "None", name |-> "", err |-> ""]

\* IsbnObject::trait_registration_group (Isbn10::registration_group,
\* Isbn13::registration_group, Isbn::registration_group)
trait_registration_group(t, isbn) ==
    LET g == ean_ucc_group(t, isbn)
    IN  IF g.tag = "Err" THEN NameErr(g.err)
        ELSE LET registration_group_segment_length == g.segment_length
                 r == Isbn_get_registration_group(
                          t, prefix_element(isbn),
                          group_prefix(isbn, registration_group_segment_length),
                          segment(isbn, registration_group_segment_length))
             IN  IF r.tag = "Err" THEN NameErr(r.err) ELSE NameOk(r.name)

-----------------------------------------------------------------------------
(* The range table loaded at run time: IsbnRange (range.rs) *)

IsbnRangeError == {"BadLengthString", "LengthTooLarge"}

\* Option<NonZeroUsize>: None is <<>>, Some(n) is <<n>>
NonZeroUsize_new(n) == IF n = 0 THEN <<>> ELSE <<n>>

\* struct Segment
Segment(name, ranges) ==
    [tag |-> "Segment", name |-> name, ranges |-> ranges, err |-> ""]

LoadErr(e) == [tag |-> "Err", name |-> "", ranges |-> <<>>, err |-> e]

RECURSIVE ReadRules_NoLengthBound(_, _, _)
\* faulty variant: a length of one digit is taken whatever its value
ReadRules_NoLengthBound(rules, i, ranges) ==
    IF i > Len(rules) THEN [err |-> "", ranges |-> ranges]
    ELSE IF rules[i].length > 9 THEN [err |-> "BadLengthString", ranges |-> <<>>]
    ELSE ReadRules_NoLengthBound(rules, i + 1,
             Append(ranges, [start |-> rules[i].min, stop |-> rules[i].max,
                             length |-> NonZeroUsize_new(rules[i].length)]))

RECURSIVE ReadRules(_, _, _)
\* the loop of Segment::from_reader over the rules of one group; a length
\* is one decimal digit of at most 7
ReadRules(rules, i, ranges) ==
    IF i > Len(rules) THEN [err |-> "", ranges |-> ranges]
    ELSE IF rules[i].length > 9 THEN [err |-> "BadLengthString", ranges |-> <<>>]
    ELSE IF rules[i].length > 7 THEN [err |-> "LengthTooLarge", ranges |-> <<>>]
    ELSE ReadRules(rules, i + 1,
             Append(ranges, [start |-> rules[i].min, stop |-> rules[i].max,
                             length |-> NonZeroUsize_new(rules[i].length)]))

\* Segment::from_reader
Segment_from_reader(group) ==
    LET r == ReadRules(group.rules, 1, <<>>)
    IN  IF r.err # "" THEN LoadErr(r.err) ELSE Segment(group.agency, r.ranges)

RECURSIVE IndexMap_insert(_, _, _, _)
\* IndexMap::insert: the value of a key already present is replaced in place
IndexMap_insert(m, i, key, value) ==
    IF i > Len(m) THEN Append(m, [key |-> key, value |-> value])
    ELSE IF m[i].key = key THEN [m EXCEPT ![i].value = value]
    ELSE IndexMap_insert(m, i + 1, key, value)

RECURSIVE IndexMap_get(_, _, _)
\* IndexMap::get: None is <<>>, Some(value) is <<value>>
IndexMap_get(m, i, key) ==
    IF i > Len(m) THEN <<>>
    ELSE IF m[i].key = key THEN <<m[i].value>>
    ELSE IndexMap_get(m, i + 1, key)

RECURSIVE ReadGroups(_, _, _, _)
\* the loops of read_ean_ucc_group (two |-> FALSE, key prefix_val) and
\* read_registration_group (two |-> TRUE, key (prefix_val,
\* registration_group_element))
ReadGroups(groups, i, two, res) ==
    IF i > Len(groups) THEN [err |-> "", map |-> res]
    ELSE LET prefix_val == PackPrefix(groups[i].prefix)
             registration_group_element ==
                 PackDigits(groups[i].registration_group_element, 0)
             seg == Segment_from_reader(groups[i])
         IN  IF seg.tag = "Err" THEN [err |-> seg.err, map |-> <<>>]
             ELSE ReadGroups(groups, i + 1, two,
                      IndexMap_insert(res, 1,
                          IF two THEN <<prefix_val, registration_group_element>>
                          ELSE <<prefix_val>>,
                          seg))

IsbnRange_read_ean_ucc_group(t) == ReadGroups(t.ean_ucc_groups, 1, FALSE, <<>>)

IsbnRange_read_registration_group(t) ==
    ReadGroups(t.registration_groups, 1, TRUE, <<>>)

NoRange ==
    [tag |-> "None", ean_ucc_group |-> <<>>, registration_group |-> <<>>, err |-> ""]

\* IsbnRange::from_reader (IsbnRange::from_path)
IsbnRange_from_reader(t) ==
    LET e == IsbnRange_read_ean_ucc_group(t)
        r == IsbnRange_read_registration_group(t)
    IN  IF e.err # ""
        THEN [tag |-> "Err", ean_ucc_group |-> <<>>, registration_group |-> <<>>,
              err |-> e.err]
        ELSE IF r.err # ""
        THEN [tag |-> "Err", ean_ucc_group |-> <<>>, registration_group |-> <<>>,
              err |-> r.err]
        ELSE [tag |-> "IsbnRange", ean_ucc_group |-> e.map,
              registration_group |-> r.map, err |-> ""]

RECURSIVE Segment_group_from_Inclusive(_, _, _)
\* faulty variant: the stop of a range belongs to it
Segment_group_from_Inclusive(self, i, v) ==
    IF i > Len(self.ranges) THEN GroupErr("InvalidGroup")
    ELSE IF v >= self.ranges[i].start /\ v <= self.ranges[i].stop
         THEN IF self.ranges[i].length = <<>>
              THEN GroupErr("UndefinedRange")
              ELSE GroupOk(self.name, self.ranges[i].length[1])
         ELSE Segment_group_from_Inclusive(self, i + 1, v)

RECURSIVE Segment_group_from(_, _, _)
\* Segment::group(v): the ranges are tried in order, the first with
\* v >= start && v < stop decides
Segment_group_from(self, i, v) ==
    IF i > Len(self.ranges) THEN GroupErr("InvalidGroup")
    ELSE IF v >= self.ranges[i].start /\ v < self.ranges[i].stop
         THEN IF self.ranges[i].length = <<>>
              THEN GroupErr("UndefinedRange")
              ELSE GroupOk(self.name, self.ranges[i].length[1])
         ELSE Segment_group_from(self, i + 1, v)

Segment_group(self, v) == Segment_group_from(self, 1, v)

\* faulty variant: the segment a lookup finds is taken out of the map
IsbnRange_after_lookup_Takes(self, level, key) ==
    IF level = "ean_ucc_group"
    THEN [self EXCEPT !.ean_ucc_group = SelectSeq(@, LAMBDA e : e.key # key)]
    ELSE [self EXCEPT !.registration_group = SelectSeq(@, LAMBDA e : e.key # key)]

\* the table after a lookup by hyphenate_isbn or
\* get_registration_group_isbn: both borrow it as &self and write nothing
IsbnRange_after_lookup(self, level, key) == self

\* one lookup of the run-time table: map.get(key).ok_or(InvalidGroup)?
\* .group(v); ranges are those of the segment found, <<>> if none was
RangeLookup(level, map, key, v) ==
    LET found == IndexMap_get(map, 1, key)
    IN  [level |-> level, key |-> key, v |-> v, found |-> found # <<>>,
         ranges |-> IF found = <<>> THEN <<>> ELSE found[1].ranges,
         result |-> IF found = <<>> THEN GroupErr("InvalidGroup")
                    ELSE Segment_group(found[1], v)]

\* the lookups of hyphenate_isbn and get_registration_group_isbn, in order
IsbnRange_lookups(self, isbn) ==
    LET first == RangeLookup("ean_ucc_group", self.ean_ucc_group,
                             <<prefix_element(isbn)>>, segment(isbn, 0))
    IN  IF first.result.tag = "Err" THEN <<first>>
        ELSE LET registration_group_segment_length == first.result.segment_length
             IN  <<first,
                   RangeLookup("registration_group", self.registration_group,
                       <<prefix_element(isbn),
                         group_prefix(isbn, registration_group_segment_length)>>,
                       segment(isbn, registration_group_segment_length))>>

\* faulty variant: a numeral whose registrant is not resolved is returned
\* without hyphens
IsbnRange_hyphenate_isbn_Fallback(self, isbn) ==
    LET l == IsbnRange_lookups(self, isbn)
    IN  IF l[1].result.tag = "Err" THEN StrErr(l[1].result.err)
        ELSE IF l[2].result.tag = "Err" THEN StrOk(Isbn_fmt(isbn))
        ELSE StrOk(hyphenate_with(isbn,
                 <<l[1].result.segment_length,
                   l[1].result.segment_length + l[2].result.segment_length>>))

\* faulty variant: the name of the group found is returned without looking
\* the registrant up
IsbnRange_get_registration_group_isbn_NameOnly(self, isbn) ==
    LET l == IsbnRange_lookups(self, isbn)
    IN  IF l[1].result.tag = "Err" THEN NameErr(l[1].result.err)
        ELSE LET found == IndexMap_get(self.registration_group, 1, l[2].key)
             IN  IF found = <<>> THEN NameErr("InvalidGroup")
                 ELSE NameOk(found[1].name)

\* IsbnRange::hyphenate_isbn (IsbnRange::hyphenate)
IsbnRange_hyphenate_isbn(self, isbn) ==
    LET l == IsbnRange_lookups(self, isbn)
    IN  IF l[1].result.tag = "Err" THEN StrErr(l[1].result.err)
        ELSE IF l[2].result.tag = "Err" THEN StrErr(l[2].result.err)
        ELSE StrOk(hyphenate_with(isbn,
                 <<l[1].result.segment_length,
                   l[1].result.segment_length + l[2].result.segment_length>>))

\* IsbnRange::get_registration_group_isbn (IsbnRange::get_registration_group)
IsbnRange_get_registration_group_isbn(self, isbn) ==
    LET l == IsbnRange_lookups(self, isbn)
    IN  IF l[1].result.tag = "Err" THEN NameErr(l[1].result.err)
        ELSE IF l[2].result.tag = "Err" THEN NameErr(l[2].result.err)
        ELSE NameOk(l[2].result.name)

-----------------------------------------------------------------------------
(* Inputs *)

\* the first nine digits of the numerals of the crate's examples and tests:
\* 89-6626-126-4, 1-4920-6766-0 (978-1-4920-6766-5), 0-9752298-0-X,
\* 3-16-148410-X (978-3-16-148410-0) and 0-306-40615-2
AllSampleBodies ==
    << <<8, 9, 6, 6, 2, 6, 1, 2, 6>>,
       <<1, 4, 9, 2, 0, 6, 7, 6, 6>>,
       <<0, 9, 7, 5, 2, 2, 9, 8, 0>>,
       <<3, 1, 6, 1, 4, 8, 4, 1, 0>>,
       <<0, 3, 0, 6, 4, 0, 6, 1, 5>> >>

SampleBodies ==
    { AllSampleBodies[k] : k \in { j \in 1..Len(AllSampleBodies) : j <= NSamples } }

SamplePrefixes == { <<9, 7, 8>>, <<9, 7, 9>> }

\* the body positions the inputs vary freely: the leading two, which decide
\* the registration group
FreePositions == {1, 2}

\* body b with its free positions replaced by h
Vary(b, h) == [i \in 1..9 |-> IF i \in FreePositions THEN h[i] ELSE b[i]]

InDigits == 0..MaxDigitIn

Inputs10 ==
    { Vary(b, h) \o <<c>> :
        b \in SampleBodies, h \in [FreePositions -> InDigits], c \in InDigits }

Inputs13 ==
    { p \o Vary(b, h) \o <<c>> :
        p \in SamplePrefixes, b \in SampleBodies,
        h \in [FreePositions -> InDigits], c \in InDigits }

\* the samples themselves, as valid numerals
SampleArrays ==
    { b \o <<Isbn10_calculate_check_digit(b \o <<0>>)>> : b \in SampleBodies }
    \cup { p \o b \o <<Isbn13_calculate_check_digit(p \o b \o <<0>>)>> :
             p \in SamplePrefixes, b \in SampleBodies }

\* the characters of input strings; "L" stands for every character that is
\* no digit, separator or X
Chars == DigitCharSet \cup {"X", "-", " ", "L"}

BodyStr(b) == [i \in 1..9 |-> convert_isbn_body(b[i])]

\* sample strings with the first and the last character varied
InputStrings ==
    { <<h>> \o SubSeq(BodyStr(b), 2, 9) \o <<c>> :
        b \in SampleBodies, h \in Chars, c \in Chars }
    \cup { [i \in 1..3 |-> convert_isbn_body(p[i])]
             \o <<h>> \o SubSeq(BodyStr(b), 2, 9) \o <<c>> :
             p \in SamplePrefixes, b \in SampleBodies, h \in Chars, c \in Chars }

\* strings of the crate's tests (test_from_str_isbn10,
\* test_invalid_isbn_strings_no_panic)
TestStrings ==
    { <<"9","9","9","9","9","-","9","9","9","-","9","-","X">>,
      <<"0","-","8","0","4","4","-","2","9","5","7","-","X">>,
      <<"L">>,
      <<>>,
      <<"0","1","2","3","4","5","6","7","X","9">>,
      <<"0","1","2","3","4","5","6","7","8">>,
      <<"0","1","2","3","4","5","6","7","8","9","0">>,
      <<"0","1","2","3","4","5","6","7","8","9","0","1","X">>,
      <<"0","1","2","3","4","5","6","7","8","9","0","X","2">>,
      <<"0","1","2","3","4","5","6","7","8","9","0","1","2","3","4","5">> }

\* thirteen digits followed by two more characters
OverlongStrings ==
    { [i \in 1..3 |-> convert_isbn_body(p[i])] \o BodyStr(b) \o <<"0", c, d>> :
        p \in SamplePrefixes, b \in SampleBodies, c \in Chars, d \in Chars }

NoStr == [tag |-> "None", s |-> <<>>, err |-> ""]

IsNumeral(x) == x.tag \in {"Isbn10", "Isbn13"}

-----------------------------------------------------------------------------
(* State machine: a run starts from one input of the caller, a digit array  *)
(* or a string, and applies the crate's operations to it and their results  *)

Init ==
    /\ table \in Tables
    /\ \/ /\ arr \in Inputs10 \cup Inputs13
          /\ editable = (arr \in SampleArrays)
          /\ str = <<>>
          /\ strKind = "none"
       \/ /\ arr = <<>>
          /\ str \in InputStrings \cup TestStrings
          /\ editable = (str \in TestStrings)
          /\ strKind = "raw"
    /\ strSrc = NoIsbn
    /\ edits = 0
    /\ cur = NoIsbn
    /\ prev = NoIsbn
    /\ orig = NoIsbn
    /\ chkIn = <<>>
    /\ chk = -1
    /\ hyph = NoStr
    /\ op = "init"
    /\ range = NoRange
    /\ look = <<>>
    /\ grp = NoName
    /\ calls = <<>>
    /\ built = build_main(table)

\* a call that classifies nothing
NoLookup ==
    /\ look' = <<>>
    /\ grp' = NoName
    /\ UNCHANGED <<calls, built>>

\* a call that holds no string afterwards
NoString ==
    /\ str' = <<>>
    /\ strSrc' = NoIsbn
    /\ strKind' = "none"
    /\ edits' = 0
    /\ hyph' = NoStr

\* Isbn10::new(arr)
New10 ==
    /\ Len(arr) = 10
    /\ op' = "Isbn10::new"
    /\ cur' = Isbn10_new(arr)
    /\ chkIn' = IF cur'.err = "DigitTooLarge" THEN <<>> ELSE arr
    /\ chk' = IF cur'.err = "DigitTooLarge" THEN -1
              ELSE Isbn10_calculate_check_digit(arr)
    /\ prev' = NoIsbn
    /\ orig' = NoIsbn
    /\ NoString
    /\ UNCHANGED <<table, range, arr, editable>>
    /\ NoLookup

\* Isbn13::new(arr)
New13 ==
    /\ Len(arr) = 13
    /\ op' = "Isbn13::new"
    /\ cur' = Isbn13_new(arr)
    /\ chkIn' = IF cur'.err = "DigitTooLarge" THEN <<>> ELSE arr
    /\ chk' = IF cur'.err = "DigitTooLarge" THEN -1
              ELSE Isbn13_calculate_check_digit(arr)
    /\ prev' = NoIsbn
    /\ orig' = NoIsbn
    /\ NoString
    /\ UNCHANGED <<table, range, arr, editable>>
    /\ NoLookup

\* Isbn10::try_from(cur)
TryFrom ==
    /\ cur.tag = "Isbn13"
    /\ op' = "Isbn10::try_from"
    /\ cur' = Isbn10_try_from(cur)
    /\ chkIn' = IF cur'.tag = "Err" THEN <<>> ELSE TryFromBody(cur)
    /\ chk' = IF cur'.tag = "Err" THEN -1
              ELSE Isbn10_calculate_check_digit(TryFromBody(cur))
    /\ prev' = cur
    /\ orig' = prev
    /\ NoString
    /\ UNCHANGED <<table, range, arr, editable>>
    /\ NoLookup

\* Isbn13::from(cur)
From ==
    /\ cur.tag = "Isbn10"
    /\ op' = "Isbn13::from"
    /\ cur' = Isbn13_from(cur)
    /\ chkIn' = FromBody(cur)
    /\ chk' = Isbn13_calculate_check_digit(FromBody(cur))
    /\ prev' = cur
    /\ orig' = prev
    /\ NoString
    /\ UNCHANGED <<table, range, arr, editable>>
    /\ NoLookup

\* cur.to_string()
Display ==
    /\ IsNumeral(cur)
    /\ op' = "Display"
    /\ str' = Isbn_fmt(cur)
    /\ strSrc' = cur
    /\ strKind' = "display"
    /\ edits' = 0
    /\ hyph' = NoStr
    /\ prev' = NoIsbn
    /\ orig' = NoIsbn
    /\ chkIn' = <<>>
    /\ chk' = -1
    /\ UNCHANGED <<table, range, arr, editable, cur>>
    /\ NoLookup

\* cur.hyphenate()
Hyphenate ==
    /\ built = "generated"
    /\ IsNumeral(cur)
    /\ op' = "hyphenate"
    /\ hyph' = trait_hyphenate(table, cur)
    /\ look' = trait_lookups(table, cur)
    /\ grp' = NoName
    /\ UNCHANGED <<calls, built>>
    /\ str' = hyph'.s
    /\ strSrc' = IF hyph'.tag = "Str" THEN cur ELSE NoIsbn
    /\ strKind' = IF hyph'.tag = "Str" THEN "hyphenate" ELSE "none"
    /\ edits' = 0
    /\ prev' = NoIsbn
    /\ orig' = NoIsbn
    /\ chkIn' = <<>>
    /\ chk' = -1
    /\ UNCHANGED <<table, range, arr, editable, cur>>

\* the frame of a classification of cur that returns no numeral
Classified ==
    /\ prev' = NoIsbn
    /\ orig' = NoIsbn
    /\ chkIn' = <<>>
    /\ chk' = -1
    /\ UNCHANGED <<table, range, arr, editable, cur, calls, built>>

\* cur.registration_group()
RegistrationGroup ==
    /\ built = "generated"
    /\ IsNumeral(cur)
    /\ op' = "registration_group"
    /\ grp' = trait_registration_group(table, cur)
    /\ look' = trait_lookups(table, cur)
    /\ NoString
    /\ Classified

\* IsbnRange::from_path / IsbnRange::from_reader on the file the build read
LoadRanges ==
    /\ range = NoRange
    /\ op' = "IsbnRange::from_reader"
    /\ range' = IsbnRange_from_reader(table)
    /\ UNCHANGED <<table, arr, editable, str, strSrc, strKind, edits, cur, prev,
                   orig, chkIn, chk, hyph, look, grp, calls, built>>

\* range.hyphenate(&cur)
RangeHyphenate ==
    /\ IsNumeral(cur)
    /\ range.tag = "IsbnRange"
    /\ op' = "IsbnRange::hyphenate"
    /\ hyph' = IsbnRange_hyphenate_isbn(range, cur)
    /\ look' = IsbnRange_lookups(range, cur)
    /\ grp' = NoName
    /\ str' = hyph'.s
    /\ strSrc' = IF hyph'.tag = "Str" THEN cur ELSE NoIsbn
    /\ strKind' = IF hyph'.tag = "Str" THEN "hyphenate" ELSE "none"
    /\ edits' = 0
    /\ Classified

\* range.get_registration_group(&cur)
RangeRegistrationGroup ==
    /\ IsNumeral(cur)
    /\ range.tag = "IsbnRange"
    /\ op' = "IsbnRange::get_registration_group"
    /\ grp' = IsbnRange_get_registration_group_isbn(range, cur)
    /\ look' = IsbnRange_lookups(range, cur)
    /\ NoString
    /\ Classified

\* the array a from_str hands to calculate_check_digit, <<>> if it does not
\* get that far; lens are the digit counts the called from_str accepts
ReadArray(s, lens) ==
    LET p == Parser_new(s)
    IN  IF p.tag = "Parser" /\ Len(p.digits) \in lens THEN p.digits ELSE <<>>

ReadCheck(a) ==
    CASE Len(a) = 10 -> Isbn10_calculate_check_digit(a)
      [] Len(a) = 13 -> Isbn13_calculate_check_digit(a)
      [] OTHER -> -1

FromStr(name, result, lens) ==
    /\ strKind # "none"
    /\ op' = name
    /\ cur' = result
    /\ chkIn' = ReadArray(str, lens)
    /\ chk' = ReadCheck(chkIn')
    /\ prev' = NoIsbn
    /\ orig' = NoIsbn
    /\ UNCHANGED <<table, range, arr, editable, str, strSrc, strKind, edits, hyph>>
    /\ NoLookup

\* str.parse::<Isbn>()
FromStrIsbn == FromStr("Isbn::from_str", Isbn_from_str(str), {10, 13})

\* str.parse::<Isbn10>()
FromStrIsbn10 == FromStr("Isbn10::from_str", Isbn10_from_str(str), {10})

\* str.parse::<Isbn13>()
FromStrIsbn13 == FromStr("Isbn13::from_str", Isbn13_from_str(str), {13})

\* s with character c put before its character i + 1
InsertAt(s, i, c) == SubSeq(s, 1, i) \o <<c>> \o SubSeq(s, i + 1, Len(s))

\* s without its character i
RemoveAt(s, i) == SubSeq(s, 1, i - 1) \o SubSeq(s, i + 1, Len(s))

Edited ==
    /\ editable
    /\ strKind # "none"
    /\ edits < MaxEdits
    /\ edits' = edits + 1
    /\ cur' = NoIsbn
    /\ prev' = NoIsbn
    /\ orig' = NoIsbn
    /\ chkIn' = <<>>
    /\ chk' = -1
    /\ UNCHANGED <<table, range, arr, editable, strSrc, strKind, hyph>>
    /\ NoLookup

\* the caller puts a hyphen or a space somewhere into the string
InsertSep(i, c) ==
    /\ Edited
    /\ op' = "insert"
    /\ str' = InsertAt(str, i, c)

\* the caller takes a hyphen or a space out of the string
RemoveSep(i) ==
    /\ Edited
    /\ str[i] \in {"-", " "}
    /\ op' = "remove"
    /\ str' = RemoveAt(str, i)

Next ==
    \/ New10
    \/ New13
    \/ TryFrom
    \/ From
    \/ Display
    \/ Hyphenate
    \/ FromStrIsbn
    \/ FromStrIsbn10
    \/ FromStrIsbn13
    \/ \E i \in 0..Len(str), c \in {"-", " "} : InsertSep(i, c)
    \/ \E i \in 1..Len(str) : RemoveSep(i)

Spec == Init /\ [][Next]_vars

\* the runs that classify: a valid numeral is constructed and classified by
\* the lookup the build generated and by the table loaded at run time
\* the body of "99999-999-9-X", with its free positions varied: among the
\* valid numerals are those that end in 99 and the check digit 10
NinesBody == <<9, 9, 9, 9, 9, 9, 9, 9, 9>>

InputsNines10 ==
    { Vary(NinesBody, h) \o <<c>> :
        h \in [FreePositions -> InDigits], c \in InDigits }

InputsNines13 ==
    { <<9, 7, 8>> \o Vary(NinesBody, h) \o <<c>> :
        h \in [FreePositions -> InDigits], c \in InDigits }

InitRange ==
    /\ table \in RangeTables
    /\ arr \in { d \in Inputs10 \cup InputsNines10 : Isbn10_new(d).tag = "Isbn10" }
              \cup { d \in Inputs13 \cup InputsNines13 : Isbn13_new(d).tag = "Isbn13" }
    /\ editable = FALSE
    /\ str = <<>>
    /\ strKind = "none"
    /\ strSrc = NoIsbn
    /\ edits = 0
    /\ cur = NoIsbn
    /\ prev = NoIsbn
    /\ orig = NoIsbn
    /\ chkIn = <<>>
    /\ chk = -1
    /\ hyph = NoStr
    /\ op = "init"
    /\ range = NoRange
    /\ look = <<>>
    /\ grp = NoName
    /\ calls = <<>>
    /\ built = build_main(table)

NextRange ==
    \/ New10
    \/ New13
    \/ LoadRanges
    \/ Hyphenate
    \/ RegistrationGroup
    \/ RangeHyphenate
    \/ RangeRegistrationGroup

SpecRange == InitRange /\ [][NextRange]_vars

\* the runs that share one table: NCallers invocations of
\* IsbnRange::hyphenate and IsbnRange::get_registration_group, on numerals
\* of their own, take their steps in any order
Callers == 1..NCallers

SharedNumerals == { Isbn10_new(d) : d \in { a \in SampleArrays : Len(a) = 10 } }

NoGroup == [tag |-> "None", name |-> "", segment_length |-> 0, err |-> ""]

NoResult == [tag |-> "None", err |-> ""]

Call(kind, isbn) ==
    [kind |-> kind, isbn |-> isbn, pc |-> "start", first |-> NoGroup,
     second |-> NoGroup, result |-> NoResult, overlapped |-> FALSE]

InitShared ==
    /\ table \in RangeTables
    /\ range = IsbnRange_from_reader(table)
    /\ calls \in [Callers ->
                    { Call(kind, isbn) :
                        kind \in {"hyphenate", "get_registration_group"},
                        isbn \in SharedNumerals }]
    /\ arr = <<>>
    /\ editable = FALSE
    /\ str = <<>>
    /\ strKind = "none"
    /\ strSrc = NoIsbn
    /\ edits = 0
    /\ cur = NoIsbn
    /\ prev = NoIsbn
    /\ orig = NoIsbn
    /\ chkIn = <<>>
    /\ chk = -1
    /\ hyph = NoStr
    /\ op = "init"
    /\ look = <<>>
    /\ grp = NoName
    /\ built = build_main(table)

\* another invocation is between its first and its last step
InFlight(p) == \E q \in Callers \ {p} : calls[q].pc \in {"second", "format"}

\* the frame of a step of invocation p that leaves it as c
Step(p, c, level, key) ==
    /\ calls' = [calls EXCEPT ![p] = [c EXCEPT !.overlapped = @ \/ InFlight(p)]]
    /\ range' = IsbnRange_after_lookup(range, level, key)
    /\ op' = "shared"
    /\ UNCHANGED <<table, arr, editable, str, strSrc, strKind, edits, cur, prev,
                   orig, chkIn, chk, hyph, look, grp, built>>

\* the result an invocation of its kind returns for an error
CallErr(kind, e) == IF kind = "hyphenate" THEN StrErr(e) ELSE NameErr(e)

\* self.ean_ucc_group.get(..).ok_or(InvalidGroup)?.group(isbn.segment(0))?
FirstLookup(p) ==
    /\ calls[p].pc = "start"
    /\ LET c == calls[p]
           l == RangeLookup("ean_ucc_group", range.ean_ucc_group,
                            <<prefix_element(c.isbn)>>, segment(c.isbn, 0))
       IN  Step(p, IF l.result.tag = "Err"
                   THEN [c EXCEPT !.pc = "done",
                                  !.result = CallErr(c.kind, l.result.err)]
                   ELSE [c EXCEPT !.pc = "second", !.first = l.result],
                "ean_ucc_group", l.key)

\* self.registration_group.get(..).ok_or(InvalidGroup)?
\*     .group(isbn.segment(registration_group_segment_length))?
SecondLookup(p) ==
    /\ calls[p].pc = "second"
    /\ LET c == calls[p]
           registration_group_segment_length == c.first.segment_length
           l == RangeLookup("registration_group", range.registration_group,
                    <<prefix_element(c.isbn),
                      group_prefix(c.isbn, registration_group_segment_length)>>,
                    segment(c.isbn, registration_group_segment_length))
       IN  Step(p, IF l.result.tag = "Err"
                   THEN [c EXCEPT !.pc = "done",
                                  !.result = CallErr(c.kind, l.result.err)]
                   ELSE IF c.kind = "hyphenate"
                   THEN [c EXCEPT !.pc = "format", !.second = l.result]
                   ELSE [c EXCEPT !.pc = "done", !.second = l.result,
                                  !.result = NameOk(l.result.name)],
                "registration_group", l.key)

\* Ok(isbn.hyphenate_with(hyphen_at))
Format(p) ==
    /\ calls[p].pc = "format"
    /\ LET c == calls[p]
       IN  /\ calls' = [calls EXCEPT ![p] =
                  [c EXCEPT !.pc = "done",
                            !.overlapped = @ \/ InFlight(p),
                            !.result = StrOk(hyphenate_with(c.isbn,
                                <<c.first.segment_length,
                                  c.first.segment_length + c.second.segment_length>>))]]
           /\ op' = "shared"
           /\ UNCHANGED <<table, range, arr, editable, str, strSrc, strKind, edits,
                          cur, prev, orig, chkIn, chk, hyph, look, grp, built>>

NextShared ==
    \/ \E p \in Callers : FirstLookup(p)
    \/ \E p \in Callers : SecondLookup(p)
    \/ \E p \in Callers : Format(p)

SpecShared == InitShared /\ [][NextShared]_vars

\* the runs that only parse: a caller's string, its separator edits and the
\* three from_str
InitParse ==
    /\ table = PublishedTable
    /\ arr = <<>>
    /\ str \in InputStrings \cup TestStrings \cup OverlongStrings
    /\ editable = (str \in TestStrings)
    /\ strKind = "raw"
    /\ strSrc = NoIsbn
    /\ edits = 0
    /\ cur = NoIsbn
    /\ prev = NoIsbn
    /\ orig = NoIsbn
    /\ chkIn = <<>>
    /\ chk = -1
    /\ hyph = NoStr
    /\ op = "init"
    /\ range = NoRange
    /\ look = <<>>
    /\ grp = NoName
    /\ calls = <<>>
    /\ built = build_main(table)

NextParse ==
    \/ FromStrIsbn
    \/ FromStrIsbn10
    \/ FromStrIsbn13
    \/ \E i \in 0..Len(str), c \in {"-", " "} : InsertSep(i, c)
    \/ \E i \in 1..Len(str) : RemoveSep(i)

SpecParse == InitParse /\ [][NextParse]_vars

\* cargo build: build.rs parses the source table and generates the lookup
\* functions of the static provider
Build ==
    /\ built = "none"
    /\ op' = "build"
    /\ built' = build_main(table)
    /\ UNCHANGED <<table, arr, editable, str, strSrc, strKind, edits, cur, prev,
                   orig, chkIn, chk, hyph, range, look, grp, calls>>

\* the runs that construct the providers: a source table, which may hold a
\* length above 7, is built into the static provider and loaded at run time
InitLoad ==
    /\ table \in LoadTables
    /\ arr \in { d \in Inputs10 : Isbn10_new(d).tag = "Isbn10" }
              \cup { d \in Inputs13 : Isbn13_new(d).tag = "Isbn13" }
    /\ editable = FALSE
    /\ str = <<>>
    /\ strKind = "none"
    /\ strSrc = NoIsbn
    /\ edits = 0
    /\ cur = NoIsbn
    /\ prev = NoIsbn
    /\ orig = NoIsbn
    /\ chkIn = <<>>
    /\ chk = -1
    /\ hyph = NoStr
    /\ op = "init"
    /\ range = NoRange
    /\ look = <<>>
    /\ grp = NoName
    /\ calls = <<>>
    /\ built = "none"

NextLoad ==
    \/ Build
    \/ LoadRanges
    \/ New10
    \/ New13
    \/ Hyphenate
    \/ RegistrationGroup
    \/ RangeHyphenate
    \/ RangeRegistrationGroup

SpecLoad == InitLoad /\ [][NextLoad]_vars

-----------------------------------------------------------------------------
(* Properties *)

\* the check digits as the specification states them
SpecCheck10(d) ==
    (11 - ((10 * d[1] + 9 * d[2] + 8 * d[3] + 7 * d[4] + 6 * d[5]
            + 5 * d[6] + 4 * d[7] + 3 * d[8] + 2 * d[9]) % 11)) % 11

SpecCheck13(d) ==
    (10 - ((d[1] + 3 * d[2] + d[3] + 3 * d[4] + d[5] + 3 * d[6]
            + d[7] + 3 * d[8] + d[9] + 3 * d[10] + d[11] + 3 * d[12]) % 10)) % 10

ChecksumOk(x) ==
    /\ x.tag = "Isbn10" => Len(x.digits) = 10 /\ x.digits[10] = SpecCheck10(x.digits)
    /\ x.tag = "Isbn13" => Len(x.digits) = 13 /\ x.digits[13] = SpecCheck13(x.digits)

\* C1: every numeral obtained from Isbn10::new, Isbn13::new, a from_str,
\* Isbn10::try_from or Isbn13::from ends in the check digit of the digits
\* before it
C1_ChecksumInvariant ==
    ChecksumOk(cur) /\ ChecksumOk(prev) /\ ChecksumOk(orig) /\ ChecksumOk(strSrc)

C1_Witness ==
    /\ op = "Isbn10::try_from"
    /\ cur.tag = "Isbn10"
    /\ cur.digits[10] = 10

DigitBoundOk(x) ==
    /\ x.tag = "Isbn10" =>
         /\ \A i \in 1..9 : x.digits[i] \in 0..9
         /\ x.digits[10] \in 0..10
    /\ x.tag = "Isbn13" => \A i \in 1..13 : x.digits[i] \in 0..9

\* C2: every numeral obtained from new, a from_str, try_from or from has all
\* digits at most 9, except that the tenth digit of an Isbn10 may be 10
C2_DigitBoundInvariant ==
    DigitBoundOk(cur) /\ DigitBoundOk(prev) /\ DigitBoundOk(orig) /\ DigitBoundOk(strSrc)

C2_Witness ==
    /\ op = "Isbn10::from_str"
    /\ strKind = "raw"
    /\ cur.tag = "Isbn10"
    /\ cur.digits[10] = 10

\* C3: for nine digits in 0..9, Isbn10::calculate_check_digit returns
\* (11 - (sum mod 11)) mod 11 with the weights 10, 9, ..., 2, a value in 0..10
C3_Check10Formula ==
    (Len(chkIn) = 10 /\ \A i \in 1..9 : chkIn[i] \in 0..9) =>
        chk = SpecCheck10(chkIn) /\ chk \in 0..10

C3_Witness ==
    /\ op = "Isbn10::new"
    /\ Len(chkIn) = 10
    /\ chk = 0
    /\ \E i \in 1..9 : chkIn[i] # 0

\* C4: for twelve digits in 0..9, Isbn13::calculate_check_digit returns
\* (10 - (sum mod 10)) mod 10 with the weights 1, 3, 1, 3, ..., a value in 0..9
C4_Check13Formula ==
    (Len(chkIn) = 13 /\ \A i \in 1..12 : chkIn[i] \in 0..9) =>
        chk = SpecCheck13(chkIn) /\ chk \in 0..9

C4_Witness ==
    /\ op = "Isbn13::new"
    /\ Len(chkIn) = 13
    /\ chk = 0
    /\ cur.tag = "Isbn13"

\* C5: Isbn10::new and Isbn13::new return DigitTooLarge for a digit out of
\* bounds, whatever the checksum, otherwise InvalidChecksum for a wrong final
\* digit, otherwise Ok of the very array
C5_NewOutcome ==
    /\ op = "Isbn10::new" =>
         cur = IF (\E i \in 1..9 : arr[i] > 9) \/ arr[10] > 10
               THEN Err("DigitTooLarge")
               ELSE IF arr[10] # SpecCheck10(arr) THEN Err("InvalidChecksum")
               ELSE Ok10(arr)
    /\ op = "Isbn13::new" =>
         cur = IF \E i \in 1..13 : arr[i] > 9
               THEN Err("DigitTooLarge")
               ELSE IF arr[13] # SpecCheck13(arr) THEN Err("InvalidChecksum")
               ELSE Ok13(arr)

C5_Witness ==
    /\ op = "Isbn13::new"
    /\ cur = Err("DigitTooLarge")
    /\ arr[13] # Isbn13_calculate_check_digit(arr)
    /\ arr[4] > 9

\* C6: Isbn10::try_from fails with InvalidConversion exactly when the
\* numeral does not start with 9, 7, 8; otherwise it returns digits 3..11
\* followed by their ISBN-10 check digit
C6_TryFromOutcome ==
    op = "Isbn10::try_from" =>
        /\ cur = Err("InvalidConversion") <=> SubSeq(prev.digits, 1, 3) # <<9, 7, 8>>
        /\ SubSeq(prev.digits, 1, 3) = <<9, 7, 8>> =>
             /\ cur.tag = "Isbn10"
             /\ SubSeq(cur.digits, 1, 9) = SubSeq(prev.digits, 4, 12)
             /\ cur.digits[10] = SpecCheck10(SubSeq(prev.digits, 4, 12))

C6_Witness ==
    /\ op = "Isbn10::try_from"
    /\ cur = Err("InvalidConversion")
    /\ prev.tag = "Isbn13"

\* C7: Isbn13::from yields 9, 7, 8, the first nine digits of the source and
\* the ISBN-13 check digit of those twelve; the source's check digit is not
\* copied
C7_FromOutcome ==
    op = "Isbn13::from" =>
        /\ cur.tag = "Isbn13"
        /\ SubSeq(cur.digits, 1, 12) = <<9, 7, 8>> \o SubSeq(prev.digits, 1, 9)
        /\ cur.digits[13] = SpecCheck13(<<9, 7, 8>> \o SubSeq(prev.digits, 1, 9))
        /\ Len(cur.digits) = 13

C7_Witness ==
    /\ op = "Isbn13::from"
    /\ prev.tag = "Isbn10"
    /\ prev.digits[10] = 10
    /\ cur.tag = "Isbn13"

\* C8: Isbn10::try_from(Isbn13::from(n)) is Ok(n) for every Isbn10 n
C8_ConversionRoundTrip ==
    (op = "Isbn10::try_from" /\ orig.tag = "Isbn10") => cur = orig

C8_Witness ==
    /\ op = "Isbn10::try_from"
    /\ orig.tag = "Isbn10"
    /\ orig.digits[10] = 10
    /\ prev = Isbn13_from(orig)
    /\ cur = orig

\* the from_str calls that parse into the form of numeral x
ParsesAs(x) ==
    {"Isbn::from_str"} \cup (IF x.tag = "Isbn10" THEN {"Isbn10::from_str"}
                             ELSE {"Isbn13::from_str"})

\* C9: parsing the unseparated rendering of a numeral returns that numeral
C9_RenderParseRoundTrip ==
    (strKind = "display" /\ edits = 0 /\ op \in ParsesAs(strSrc)) => cur = strSrc

C9_Witness ==
    /\ strKind = "display"
    /\ edits = 0
    /\ op = "Isbn10::from_str"
    /\ strSrc.tag = "Isbn10"
    /\ strSrc.digits[10] = 10
    /\ cur = strSrc

\* the three parse results of a string
Parses(s) == <<Isbn_from_str(s), Isbn10_from_str(s), Isbn13_from_str(s)>>

\* C10: parsing a hyphenated numeral returns that numeral in the same form,
\* and putting a hyphen or a space into a string, or taking one out, never
\* changes what the string parses to
C10_HyphenateParseRoundTrip ==
    /\ []((strKind = "hyphenate" /\ op \in ParsesAs(strSrc)) => cur = strSrc)
    /\ [][op' \in {"insert", "remove"} => Parses(str') = Parses(str)]_vars

C10_Witness ==
    /\ strKind = "hyphenate"
    /\ edits > 0
    /\ op = "Isbn::from_str"
    /\ strSrc.tag = "Isbn13"
    /\ cur = strSrc

-----------------------------------------------------------------------------
(* Parse errors *)

FromStrOps == {"Isbn::from_str", "Isbn10::from_str", "Isbn13::from_str"}

\* the number of digit characters (X among them) before character i of s
DigitsBefore(s, i) ==
    Cardinality({ j \in 1..(i - 1) : s[j] \in DigitCharSet \cup {"X"} })

\* character i of s is no legal character, or an X that is not the tenth
\* digit, or a digit or X after an X
BadDigitAt(s, i) ==
    \/ s[i] \notin DigitCharSet \cup {"X", "-", " "}
    \/ s[i] = "X" /\ DigitsBefore(s, i) # 9
    \/ s[i] \in DigitCharSet \cup {"X"} /\ \E j \in 1..(i - 1) : s[j] = "X"

\* character i of s is a digit that has thirteen digits before it
OverflowAt(s, i) == s[i] \in DigitCharSet /\ DigitsBefore(s, i) >= 13

\* the first character of s that raises an error is a bad digit
BadDigitFirst(s) ==
    \E i \in 1..Len(s) :
        /\ BadDigitAt(s, i)
        /\ \A j \in 1..(i - 1) : ~BadDigitAt(s, j) /\ ~OverflowAt(s, j)

\* C11: a string whose first offending character is an illegal character,
\* an X that is not the tenth digit, or a digit or X after an X, fails to
\* parse with InvalidDigit; no string holding an X parses as an Isbn13
C11_InvalidDigit ==
    op \in FromStrOps =>
        /\ BadDigitFirst(str) => cur = Err("InvalidDigit")
        /\ cur.tag = "Isbn13" => \A i \in 1..Len(str) : str[i] # "X"

C11_Witness ==
    /\ op = "Isbn::from_str"
    /\ \E i \in 1..Len(str) :
          /\ str[i] = "X"
          /\ DigitsBefore(str, i) = 12
          /\ \A j \in 1..(i - 1) : ~BadDigitAt(str, j)
    /\ cur = Err("InvalidDigit")

\* s holds digits, hyphens and spaces only
OnlyDigitsAndSeparators(s) ==
    \A i \in 1..Len(s) : s[i] \in DigitCharSet \cup {"-", " "}

DigitCount(s) == DigitsBefore(s, Len(s) + 1)

\* C12: for a string of digits, hyphens and spaces, Isbn::from_str returns
\* InvalidLength when the number of digits is neither 10 nor 13, more than
\* 13 included, Isbn10::from_str when it is not 10 and Isbn13::from_str when
\* it is not 13
C12_InvalidLength ==
    OnlyDigitsAndSeparators(str) =>
        /\ (op = "Isbn::from_str" /\ DigitCount(str) \notin {10, 13})
               => cur = Err("InvalidLength")
        /\ (op = "Isbn10::from_str" /\ DigitCount(str) # 10)
               => cur = Err("InvalidLength")
        /\ (op = "Isbn13::from_str" /\ DigitCount(str) # 13)
               => cur = Err("InvalidLength")

C12_Witness ==
    /\ op = "Isbn::from_str"
    /\ OnlyDigitsAndSeparators(str)
    /\ DigitCount(str) > 13
    /\ cur = Err("InvalidLength")

\* C13: a string of legal characters that holds the 10 or 13 digits the
\* called from_str accepts, and whose last digit is not the check digit of
\* the others, fails to parse with InvalidChecksum
C13_ChecksumMismatchReported ==
    (/\ op \in FromStrOps
     /\ chkIn # <<>>
     /\ chkIn[Len(chkIn)] #
            (IF Len(chkIn) = 10 THEN SpecCheck10(chkIn) ELSE SpecCheck13(chkIn)))
    => cur = Err("InvalidChecksum")

-----------------------------------------------------------------------------
(* Classification *)

HyphenateOps == {"hyphenate", "IsbnRange::hyphenate"}

RegistrationGroupOps == {"registration_group", "IsbnRange::get_registration_group"}

RangeOps == {"IsbnRange::hyphenate", "IsbnRange::get_registration_group"}

\* the lengths the last classification resolved, when both lookups succeeded
Resolved == Len(look) = 2 /\ look[2].result.tag = "Group"

ResolvedG == look[1].result.segment_length

ResolvedR == look[2].result.segment_length

\* the positions of the hyphens in s
HyphenPositions(s) == { i \in 1..Len(s) : s[i] = "-" }

\* s without its hyphens
WithoutHyphens(s) == SelectSeq(s, LAMBDA c : c # "-")

\* C14: a successful hyphenate returns the characters of the numeral in
\* order, with exactly four hyphens after digits 3, 3+g, 3+g+r and 12 for
\* an Isbn13, and exactly three after digits g, g+r and 9 for an Isbn10
C14_HyphenPlacement ==
    (op \in HyphenateOps /\ hyph.tag = "Str") =>
        /\ WithoutHyphens(hyph.s) = Isbn_fmt(cur)
        /\ cur.tag = "Isbn13" =>
              /\ Len(hyph.s) = 17
              /\ HyphenPositions(hyph.s)
                     = {4, 5 + ResolvedG, 6 + ResolvedG + ResolvedR, 16}
        /\ cur.tag = "Isbn10" =>
              /\ Len(hyph.s) = 13
              /\ HyphenPositions(hyph.s)
                     = {1 + ResolvedG, 2 + ResolvedG + ResolvedR, 12}

\* C15: whenever a classification succeeds, 0 < g < g + r < 9
C15_OffsetsInBody ==
    (op \in HyphenateOps \cup RegistrationGroupOps /\ Resolved) =>
        /\ 0 < ResolvedG
        /\ ResolvedG < ResolvedG + ResolvedR
        /\ ResolvedG + ResolvedR < 9

\* the ranges of a segment that contain v, as half-open ranges
Containing(ranges, v) ==
    { i \in 1..Len(ranges) : ranges[i].start <= v /\ v < ranges[i].stop }

\* C16: a lookup in a segment of the table loaded at run time returns the
\* length of the first rule whose range [min, max) contains the value,
\* UndefinedRange if that rule has no length, and InvalidGroup if no rule
\* contains the value
C16_FirstHalfOpenRule ==
    op \in RangeOps =>
        \A k \in 1..Len(look) :
            look[k].found =>
                LET hits == Containing(look[k].ranges, look[k].v)
                    first == CHOOSE i \in hits : \A j \in hits : i <= j
                IN  IF hits = {}
                    THEN look[k].result.err = "InvalidGroup"
                    ELSE IF look[k].ranges[first].length = <<>>
                    THEN look[k].result.err = "UndefinedRange"
                    ELSE /\ look[k].result.tag = "Group"
                         /\ look[k].result.segment_length
                                = look[k].ranges[first].length[1]

\* a value equal to the max of a rule is not matched by it, and a value in
\* two rules gets the length of the first
C16_Witness ==
    /\ op \in RangeOps
    /\ \E k \in 1..Len(look) :
          /\ look[k].found
          /\ \E i \in 1..Len(look[k].ranges) : look[k].ranges[i].stop = look[k].v
          /\ look[k].result.err = "InvalidGroup"

\* the keys of the table a lookup consults: the arms of the generated
\* match, or the keys of the map loaded at run time
TableKeys(level) ==
    IF op \in RangeOps
    THEN IF level = "ean_ucc_group"
         THEN { range.ean_ucc_group[i].key : i \in 1..Len(range.ean_ucc_group) }
         ELSE { range.registration_group[i].key :
                  i \in 1..Len(range.registration_group) }
    ELSE IF level = "ean_ucc_group"
         THEN { <<PackPrefix(table.ean_ucc_groups[i].prefix)>> :
                  i \in 1..Len(table.ean_ucc_groups) }
         ELSE { <<PackPrefix(table.registration_groups[i].prefix),
                  PackDigits(table.registration_groups[i].registration_group_element, 0)>> :
                  i \in 1..Len(table.registration_groups) }

\* C17: a lookup whose key is absent from its table fails with
\* InvalidGroup; hyphenate returns the error of the first lookup that
\* fails, makes no further lookup and produces no string
C17_ErrorsAbort ==
    op \in HyphenateOps =>
        /\ Len(look) \in {1, 2}
        /\ \A k \in 1..Len(look) :
              /\ look[k].key \notin TableKeys(look[k].level)
                    => look[k].result = GroupErr("InvalidGroup")
              /\ look[k].result.tag = "Err" =>
                    /\ k = Len(look)
                    /\ hyph = StrErr(look[k].result.err)
                    /\ look[k].result.err \in {"InvalidGroup", "UndefinedRange"}
                    /\ str = <<>>
                    /\ strKind = "none"
        /\ hyph.tag = "Err" => look[Len(look)].result.tag = "Err"

C17_Witness ==
    /\ op = "IsbnRange::hyphenate"
    /\ Len(look) = 2
    /\ look[2].key \notin TableKeys("registration_group")
    /\ hyph = StrErr("InvalidGroup")
    /\ str = <<>>

\* C18: for the same source table, the table loaded at run time returns
\* what the generated lookup returns, for every numeral
C18_ProviderEquivalence ==
    /\ op = "IsbnRange::hyphenate" => hyph = trait_hyphenate(table, cur)
    /\ op = "IsbnRange::get_registration_group"
          => grp = trait_registration_group(table, cur)

\* the digits of a numeral's agency prefix and of its body
AgencyPrefix(isbn) ==
    IF isbn.tag = "Isbn10" THEN <<9, 7, 8>> ELSE SubSeq(isbn.digits, 1, 3)

BodyDigits(isbn) ==
    IF isbn.tag = "Isbn10" THEN SubSeq(isbn.digits, 1, 9)
    ELSE SubSeq(isbn.digits, 4, 12)

\* what hyphenate returns for cur from the provider of the last operation
HyphenateOfSameProvider ==
    IF op \in RangeOps THEN IsbnRange_hyphenate_isbn(range, cur)
    ELSE trait_hyphenate(table, cur)

\* C20: registration_group fails exactly when hyphenate fails, with the
\* same error, and otherwise returns the name of the group of the table
\* that is keyed by the numeral's prefix and its first g digits
C20_RegistrationGroupName ==
    op \in RegistrationGroupOps =>
        /\ (grp.tag = "Err") <=> (HyphenateOfSameProvider.tag = "Err")
        /\ grp.err = HyphenateOfSameProvider.err
        /\ grp.tag = "Name" =>
              \E i \in 1..Len(table.registration_groups) :
                  /\ PackPrefix(table.registration_groups[i].prefix)
                        = PackPrefix(AgencyPrefix(cur))
                  /\ PackDigits(table.registration_groups[i].registration_group_element, 0)
                        = PackDigits(SubSeq(BodyDigits(cur), 1, ResolvedG), 0)
                  /\ table.registration_groups[i].agency = grp.name

C20_Witness ==
    /\ op = "IsbnRange::get_registration_group"
    /\ Len(look) = 2
    /\ look[2].found
    /\ grp = NameErr("UndefinedRange")

-----------------------------------------------------------------------------
(* Invocations that share one table *)

\* what the invocation c returns when it runs alone on the table as loaded
Alone(c) ==
    IF c.kind = "hyphenate"
    THEN IsbnRange_hyphenate_isbn(IsbnRange_from_reader(table), c.isbn)
    ELSE IsbnRange_get_registration_group_isbn(IsbnRange_from_reader(table), c.isbn)

\* C19: no step of IsbnRange::hyphenate or IsbnRange::get_registration_group
\* changes the table or the numeral it was given, and every invocation
\* returns, however its steps are interleaved with those of the others, what
\* it returns when run alone
C19_SharedTable ==
    /\ [](\A p \in Callers :
            calls[p].pc = "done" => calls[p].result = Alone(calls[p]))
    /\ [][/\ range' = range
          /\ \A p \in Callers : calls'[p].isbn = calls[p].isbn]_vars

C19_Witness ==
    /\ calls # <<>>
    /\ calls[1].pc = "done"
    /\ calls[1].overlapped
    /\ calls[1].result.tag = "Str"
    /\ calls[2].pc = "done"
    /\ calls[2].overlapped
    /\ calls[2].result.tag = "Err"

-----------------------------------------------------------------------------
(* The window of a numeral *)

ClassifyOps == HyphenateOps \cup RegistrationGroupOps

\* the digit at position k, counted from 0 at the first digit after the
\* registration prefix; 0 past the end of the numeral
DigitAfterPrefix(isbn, k) ==
    LET at == IF isbn.tag = "Isbn10" THEN k + 1 ELSE k + 4
    IN  IF at <= Len(isbn.digits) THEN isbn.digits[at] ELSE 0

\* the decimal value of the seven digits at positions base..base+6
WindowValue(isbn, base) ==
    DigitAfterPrefix(isbn, base) * 1000000
    + DigitAfterPrefix(isbn, base + 1) * 100000
    + DigitAfterPrefix(isbn, base + 2) * 10000
    + DigitAfterPrefix(isbn, base + 3) * 1000
    + DigitAfterPrefix(isbn, base + 4) * 100
    + DigitAfterPrefix(isbn, base + 5) * 10
    + DigitAfterPrefix(isbn, base + 6)

\* the base offset of lookup k of a classification: 0, then g
BaseOf(k) == IF k = 1 THEN 0 ELSE ResolvedG

\* C21: the value a classification hands to its first lookup is the value
\* of the seven digits from position 0 after the registration prefix, and
\* the value it hands to its second lookup that of the seven digits from
\* position g, positions past the end of the numeral counting as 0
C21_SegmentWindow ==
    op \in ClassifyOps =>
        \A k \in 1..Len(look) : look[k].v = WindowValue(cur, BaseOf(k))

\* the lookups the provider of the last operation makes for isbn, and what
\* its hyphenate returns for it
LookupsOfSameProvider(isbn) ==
    IF op \in RangeOps THEN IsbnRange_lookups(range, isbn)
    ELSE trait_lookups(table, isbn)

HyphenateBySameProvider(isbn) ==
    IF op \in RangeOps THEN IsbnRange_hyphenate_isbn(range, isbn)
    ELSE trait_hyphenate(table, isbn)

ResultsOf(l) == [k \in 1..Len(l) |-> l[k].result]

\* s without its last character
UpToCheck(s) == SubSeq(s, 1, Len(s) - 1)

\* C22: classifying an Isbn10 and classifying the Isbn13 made from it give
\* the same error, or the same lengths and group name, and the hyphenated
\* Isbn13 up to its check digit is "978-" followed by the hyphenated Isbn10
\* up to its check digit
C22_FormAgreement ==
    (op \in ClassifyOps /\ cur.tag = "Isbn10") =>
        /\ ResultsOf(look) = ResultsOf(LookupsOfSameProvider(Isbn13_from(cur)))
        /\ (op \in HyphenateOps /\ hyph.tag = "Str") =>
              LET h13 == HyphenateBySameProvider(Isbn13_from(cur))
              IN  /\ h13.tag = "Str"
                  /\ UpToCheck(h13.s) = <<"9", "7", "8", "-">> \o UpToCheck(hyph.s)

-----------------------------------------------------------------------------
(* Bounds of hyphenate *)

\* the number of digits before the body of a numeral
PrefixLen(isbn) == IF isbn.tag = "Isbn10" THEN 0 ELSE 3

\* C23: hyphenate returns a string or an error; the slice group_prefix
\* takes ends inside the digit array, and a string returned has at most 17
\* characters for an Isbn13 and at most 13 for an Isbn10
C23_HyphenateCompletes ==
    op \in HyphenateOps =>
        /\ hyph.tag \in {"Str", "Err"}
        /\ look[1].result.tag = "Group"
              => PrefixLen(cur) + ResolvedG <= Len(cur.digits)
        /\ hyph.tag = "Str" =>
              /\ Len(hyph.s) <= ArrayStringCapacity
              /\ cur.tag = "Isbn10" => Len(hyph.s) <= 13

C23_Witness ==
    /\ op = "hyphenate"
    /\ cur.tag = "Isbn13"
    /\ hyph.tag = "Str"
    /\ Len(hyph.s) = ArrayStringCapacity
    /\ ResolvedG + ResolvedR = 8

-----------------------------------------------------------------------------
(* Segment lengths *)

\* the lengths the rules of a list of groups state
LengthsOf(groups) ==
    UNION { { groups[i].rules[j].length : j \in 1..Len(groups[i].rules) } :
              i \in 1..Len(groups) }

\* the lengths above 7 in the source table
OverLengths ==
    { n \in LengthsOf(table.ean_ucc_groups) \cup LengthsOf(table.registration_groups) :
        n > 7 }

\* the groups of the source table that lookup l is keyed to
KeyedGroups(l) ==
    IF l.level = "ean_ucc_group"
    THEN { table.ean_ucc_groups[i] : i \in
             { j \in 1..Len(table.ean_ucc_groups) :
                 <<PackPrefix(table.ean_ucc_groups[j].prefix)>> = l.key } }
    ELSE { table.registration_groups[i] : i \in
             { j \in 1..Len(table.registration_groups) :
                 <<PackPrefix(table.registration_groups[j].prefix),
                   PackDigits(table.registration_groups[j].registration_group_element, 0)>>
                 = l.key } }

\* rule j of group g is the only one that holds v, and holds it below its
\* max, where both providers agree on the match
OnlyRule(g, j, v) ==
    /\ g.rules[j].min <= v
    /\ v < g.rules[j].max
    /\ \A i \in 1..Len(g.rules) :
          i # j => ~(g.rules[i].min <= v /\ v <= g.rules[i].max)

\* a successful lookup returns a length in 1..=7
LookupLengthsInRange ==
    op \in ClassifyOps =>
        \A k \in 1..Len(look) :
            look[k].result.tag = "Group" => look[k].result.segment_length \in 1..7

\* a lookup that falls on a rule of length 0 returns UndefinedRange
ZeroLengthUndefined ==
    op \in ClassifyOps =>
        \A k \in 1..Len(look) : \A g \in KeyedGroups(look[k]) :
            \A j \in 1..Len(g.rules) :
                (g.rules[j].length = 0 /\ OnlyRule(g, j, look[k].v))
                    => /\ look[k].result.tag = "Err"
                       /\ look[k].result.err = "UndefinedRange"

\* the build of a table with a length above 7 ends in the assertion failure
BuildRejects == (built # "none" /\ OverLengths # {}) => built = "panic"

\* the original statement of C24: at run time every length above 7 is
\* rejected with LengthTooLarge
C24_LengthTooLargeAlways ==
    /\ LookupLengthsInRange
    /\ ZeroLengthUndefined
    /\ BuildRejects
    /\ (range.tag # "None" /\ OverLengths # {})
          => (range.tag = "Err" /\ range.err = "LengthTooLarge")

\* C24: a successful lookup of either provider returns a length in 1..=7
\* and a rule of length 0 gives UndefinedRange; a table with a length above
\* 7 is rejected, by the assertion of the build and by the loader, with
\* LengthTooLarge for the lengths 8 and 9 and with BadLengthString for a
\* length of two digits or more
C24_LengthsBounded ==
    /\ LookupLengthsInRange
    /\ ZeroLengthUndefined
    /\ BuildRejects
    /\ (range.tag # "None" /\ OverLengths # {})
          => /\ range.tag = "Err"
             /\ OverLengths \subseteq 8..9 => range.err = "LengthTooLarge"
             /\ OverLengths \cap 8..9 = {} => range.err = "BadLengthString"

C24_Witness ==
    /\ OverLengths = {8}
    /\ built = "panic"
    /\ range.tag = "Err"
    /\ range.err = "LengthTooLarge"

\* C25: the window value of every lookup lies in 0..9999999
C25_WindowInRange ==
    op \in ClassifyOps =>
        \A k \in 1..Len(look) : look[k].v \in 0..9999999

\* C26: a second-level lookup succeeds only in a group of the table whose
\* prefix is the numeral's and whose digit string is the numeral's first g
\* digits
C26_KeyInjective ==
    (op \in ClassifyOps /\ Resolved) =>
        \E i \in 1..Len(table.registration_groups) :
            /\ table.registration_groups[i].prefix = AgencyPrefix(cur)
            /\ table.registration_groups[i].registration_group_element
                  = SubSeq(BodyDigits(cur), 1, ResolvedG)

=============================================================================
